---------------------------- MODULE Spec2Model ----------------------------
(***************************************************************************)
(* A model of AutoCommit: schedule_git_commit.py (the interactive Setup    *)
(* flow, the repository resolver, the shared commit operation and the job  *)
(* registration) and git_commit_executor.py (the Executor command line).   *)
(*                                                                         *)
(* Three specifications share the module:                                  *)
(*   FindSpec    find_git_repo applied to paths of a bounded file system   *)
(*   SetupSpec   main(): get_user_input, create_launchd_plist, launchctl   *)
(*               load, and the OS scheduler acting on the written trigger  *)
(*   CommitSpec  the Executor command line calling commit_folder against a *)
(*               git repository                                            *)
(***************************************************************************)
EXTENDS Integers, Sequences, FiniteSets, TLC

VARIABLES
    \* ---- the file system and the process (shared)
    fs_git,          \* the directories that hold a ".git" entry
    cwd,             \* the process's current working directory
    \* ---- find_git_repo called on its own
    find_pc,         \* "idle" | "returned"
    find_arg,        \* the path argument of the call
    find_result,     \* the value returned (NoPath or a path)
    \* ---- the Setup flow (get_user_input, main)
    pc,              \* the position of main()
    folder_path,     \* get_user_input's local folder_path
    repo_path,       \* get_user_input's local repo_path
    typed,           \* whether the accepted date was typed (not defaulted)
    target_date,     \* get_user_input's local target_date
    checked_on,      \* the value of datetime.now().date() read by the check of line 122
    hour,            \* get_user_input's local hour
    minute,          \* get_user_input's local minute
    target_datetime, \* get_user_input's local target_datetime
    warned,          \* whether the "is in the past" warning was printed
    now,             \* the wall clock
    ticks,           \* how many times the clock has been advanced during the prompts
    plist,           \* the job-definition file written by create_launchd_plist (or NoPlist)
    loaded,          \* whether launchctl load registered the job
    launches,        \* the instants at which the OS scheduler started the Executor
    \* ---- the Executor and commit_folder
    ex_pc,           \* the position of the Executor / commit_folder
    argv,            \* sys.argv of the Executor
    wt_dirty,        \* tracked paths whose work tree content differs from the index
    staged,          \* paths whose index entry differs from HEAD
    commits,         \* the commits created, oldest first
    calls,           \* the git commands run by the current commit_folder invocation
    rc,              \* the exit status of each git command of the current invocation
    ret,             \* commit_folder's return value: "none" (not returned), "True", "False"
    raised,          \* the exception that left commit_folder ("none" if none)
    exit_status,     \* the Executor's process exit status (-1 while running)
    out,             \* what the Executor printed
    runs,            \* how many Executor processes have been started
    start,           \* the repository as it was when the current invocation began
    env_fault        \* whether a git command of the current invocation failed for an outside reason

fsVars == <<fs_git, cwd>>
findVars == <<find_pc, find_arg, find_result>>
setupVars == <<pc, folder_path, repo_path, typed, target_date, checked_on, hour, minute,
               target_datetime, warned, now, ticks, plist, loaded, launches>>
commitVars == <<ex_pc, argv, wt_dirty, staged, commits, calls, rc, ret, raised,
                exit_status, out, runs, start, env_fault>>
vars == <<fsVars, findVars, setupVars, commitVars>>

\* Python's None where the other values are paths
NoPath == <<"None">>

\* no argument
NoInput == [base |-> "none", comps |-> <<>>]

-----------------------------------------------------------------------------
(* Bounds of the model *)

MaxDepth == 2    \* the depth of the modelled directory tree
MaxRepos == 2    \* at most this many directories hold a ".git" entry
MaxTicks == 1    \* how often the clock may advance while the user is at the prompts
MaxRuns == 2     \* how many Executor processes are started against one repository

-----------------------------------------------------------------------------
(* Paths and the file system.  An absolute path is the sequence of its     *)
(* components; <<>> is the file system root "/".                           *)

Names == {"a", "f"}

RECURSIVE PathsOfLen(_)
PathsOfLen(n) ==
    IF n = 0 THEN {<<>>}
    ELSE {Append(p, c) : p \in PathsOfLen(n - 1), c \in Names}

Paths == UNION {PathsOfLen(n) : n \in 0..MaxDepth}

\* The tree: every component named "a" is a directory, a component named "f"
\* is a regular file, and nothing exists below a regular file or deeper than
\* MaxDepth.
IsDir(p) == Len(p) <= MaxDepth /\ \A i \in 1..Len(p) : p[i] = "a"
IsFile(p) ==
    /\ Len(p) >= 1
    /\ Len(p) <= MaxDepth
    /\ p[Len(p)] = "f"
    /\ \A i \in 1..(Len(p) - 1) : p[i] = "a"
Exists(p) == IsDir(p) \/ IsFile(p)

Dirs == {p \in Paths : IsDir(p)}

Home == <<"a">>

\* os.path.dirname of an absolute path; the root is its own parent
dirname(p) == IF p = <<>> THEN <<>> ELSE SubSeq(p, 1, Len(p) - 1)

\* os.path.basename
basename(p) == IF p = <<>> THEN "" ELSE p[Len(p)]

\* What the user may type as a path: absolute, relative to the working
\* directory, or starting with "~".
PathInputs == [base : {"abs", "rel", "home"}, comps : Paths]

\* os.path.expanduser: "~" becomes the home directory
expanduser(inp) ==
    IF inp.base = "home" THEN [base |-> "abs", comps |-> Home \o inp.comps] ELSE inp

\* os.path.abspath: a relative path is joined to the working directory
abspath(inp, wd) == IF inp.base = "rel" THEN wd \o inp.comps ELSE inp.comps

\* os.path.exists(os.path.join(current, ".git"))
HasGit(current) == current \in fs_git

-----------------------------------------------------------------------------
(* find_git_repo *)

\* the loop of find_git_repo, from the value of `current`
RECURSIVE find_loop(_)
find_loop(current) ==
    IF current = dirname(current) THEN NoPath
    ELSE IF HasGit(current) THEN current
    ELSE find_loop(dirname(current))

\* current = os.path.abspath(path), then the loop
find_git_repo(path, wd) == find_loop(abspath(path, wd))

Abs(p) == [base |-> "abs", comps |-> p]

-----------------------------------------------------------------------------
(* find_git_repo called on its own, on any path of the tree *)

FsInit ==
    /\ fs_git \in {g \in SUBSET Dirs : Cardinality(g) <= MaxRepos}
    /\ cwd \in Dirs

FindIdle ==
    /\ find_pc = "idle"
    /\ find_arg = NoInput
    /\ find_result = NoPath

FindCall(path) ==
    /\ find_pc = "idle"
    /\ find_arg' = path
    /\ find_result' = find_git_repo(path, cwd)
    /\ find_pc' = "returned"
    /\ UNCHANGED <<fsVars, setupVars, commitVars>>

\* the caller goes on to another call
FindNext ==
    /\ find_pc = "returned"
    /\ find_pc' = "idle"
    /\ find_arg' = NoInput
    /\ find_result' = NoPath
    /\ UNCHANGED <<fsVars, setupVars, commitVars>>

-----------------------------------------------------------------------------
(* Dates and instants (Python's datetime).  A date is [y, m, d]; an        *)
(* instant is a date with an hour, a minute and sub, which is 0 at the     *)
(* exact start of the minute and 1 anywhere later inside it (seconds and   *)
(* microseconds of datetime.now()).                                        *)

IsLeap(y) == (y % 4 = 0 /\ y % 100 # 0) \/ y % 400 = 0

DaysInMonth(y, m) ==
    IF m = 2 THEN (IF IsLeap(y) THEN 29 ELSE 28)
    ELSE IF m \in {4, 6, 9, 11} THEN 30
    ELSE 31

ValidDate(y, m, d) ==
    /\ y >= 1
    /\ m \in 1..12
    /\ d >= 1
    /\ d <= DaysInMonth(y, m)

Date(y, m, d) == [y |-> y, m |-> m, d |-> d]

DateKey(dt) == (dt.y * 12 + (dt.m - 1)) * 31 + (dt.d - 1)

\* date < date
DateLT(a, b) == DateKey(a) < DateKey(b)

Instant(dt, h, mi, sub) == [date |-> dt, h |-> h, mi |-> mi, sub |-> sub]

\* the values of variables that hold nothing yet
NoDate == Date(0, 0, 0)
NoInstant == Instant(NoDate, 0, 0, 0)
Unset == 0 - 1

TimeKey(t) == (t.h * 60 + t.mi) * 2 + t.sub

\* datetime < datetime
InstLT(a, b) ==
    \/ DateLT(a.date, b.date)
    \/ a.date = b.date /\ TimeKey(a) < TimeKey(b)

\* the day after dt, by the calendar
NextDay(dt) ==
    IF dt.d < DaysInMonth(dt.y, dt.m) THEN Date(dt.y, dt.m, dt.d + 1)
    ELSE IF dt.m < 12 THEN Date(dt.y, dt.m + 1, 1)
    ELSE Date(dt.y + 1, 1, 1)

\* the start of the minute after t
NextMinute(t) ==
    IF t.mi < 59 THEN Instant(t.date, t.h, t.mi + 1, 0)
    ELSE IF t.h < 23 THEN Instant(t.date, t.h + 1, 0, 0)
    ELSE Instant(NextDay(t.date), 0, 0, 0)

\* datetime.combine(target_date, datetime.min.time().replace(hour=hour, minute=minute))
combine(dt, h, mi) == Instant(dt, h, mi, 0)

\* datetime.replace(day=n): a ValueError when the month has no such day
replace_day_ok(t, n) == ValidDate(t.date.y, t.date.m, n)
replace_day(t, n) == [t EXCEPT !.date.d = n]

\* datetime.strptime(date_input, "%Y-%m-%d").date(): a ValueError unless the
\* text has the three numeric fields and they name a day of the calendar
strptime_ok(inp) == inp.form = "ymd" /\ ValidDate(inp.y, inp.m, inp.d)
strptime(inp) == Date(inp.y, inp.m, inp.d)

\* The clock readings and the inputs the model draws from
Years == {2024, 2025}
Months == {2, 12}
Days == {28, 31}
ClockTimes == {<<10, 0>>, <<23, 59>>}

ModelDates == {Date(y, m, d) : y \in Years, m \in Months, d \in Days}

ClockInstants ==
    {Instant(dt, hm[1], hm[2], sub) :
        dt \in {x \in ModelDates : ValidDate(x.y, x.m, x.d)},
        hm \in ClockTimes, sub \in {0, 1}}

\* what the user may type at the date prompt: nothing, text that is not
\* three numbers, or three numbers (which need not name a day)
DateInputs ==
    {[form |-> "blank"], [form |-> "text"]}
        \cup {[form |-> "ymd", y |-> x.y, m |-> x.m, d |-> x.d] : x \in ModelDates}

\* what the user may type at the time prompt: text without a colon or with
\* two, text that is not numbers, or two numbers around one colon
TimeInputs ==
    {[form |-> "nocolon"], [form |-> "twocolons"], [form |-> "text"]}
        \cup [form : {"hm"}, h : {0, 23, 24}, m : {0, 59, 60}]

\* int(a), int(b) of time_input.split(":"): a ValueError unless exactly two
\* fields, both numbers
split_ok(inp) == inp.form = "hm"

-----------------------------------------------------------------------------
(* The Setup flow: main() and get_user_input() *)

FolderInputs == {[base |-> "empty", comps |-> <<>>]} \cup PathInputs

\* the folder checks without the isdir test: a regular file passes
folder_checks_mut(fp) == Exists(fp)

\* `if not os.path.exists(folder_path)` and `if not os.path.isdir(folder_path)`:
\* neither rejects the folder
folder_checks(fp) == Exists(fp) /\ IsDir(fp)

\* the date check left out: no date is rejected
date_in_past_mut(dt, today) == FALSE

\* `if target_date < datetime.now().date()`: the date is rejected
date_in_past(dt, today) == DateLT(dt, today)

\* `if not (0 <= hour <= 23 and 0 <= minute <= 59)`: the time is rejected
time_out_of_range(h, mi) == ~(0 <= h /\ h <= 23 /\ 0 <= mi /\ mi <= 59)

NoPlist ==
    [Label |-> <<>>,
     ProgramArguments |-> <<>>,
     StartCalendarInterval |-> [Month |-> 0, Day |-> 0, Hour |-> 0, Minute |-> 0],
     RunAtLoad |-> FALSE]

SetupIdle ==
    /\ pc = "off"
    /\ folder_path = NoPath
    /\ repo_path = NoPath
    /\ typed = FALSE
    /\ target_date = NoDate
    /\ checked_on = NoDate
    /\ hour = Unset
    /\ minute = Unset
    /\ target_datetime = NoInstant
    /\ warned = FALSE
    /\ ticks = 0
    /\ plist = NoPlist
    /\ loaded = FALSE
    /\ launches = <<>>

\* One pass of the folder loop: the user types inp
FolderPrompt(inp) ==
    /\ pc = "folder"
    /\ IF inp.base = "empty"
       THEN UNCHANGED <<pc, folder_path, repo_path>>
       ELSE LET fp == abspath(expanduser(inp), cwd)
            IN  /\ folder_path' = fp
                /\ IF ~folder_checks(fp)
                   THEN UNCHANGED <<pc, repo_path>>
                   ELSE LET rp == find_git_repo(Abs(fp), cwd)
                        IN  /\ repo_path' = rp
                            /\ pc' = IF rp = NoPath THEN "folder" ELSE "date"
    /\ UNCHANGED <<typed, target_date, checked_on, hour, minute, target_datetime,
                   warned, now, ticks, plist, loaded, launches>>
    /\ UNCHANGED <<fsVars, findVars, commitVars>>

\* One pass of the date loop: the user types inp
DatePrompt(inp) ==
    /\ pc = "date"
    /\ IF inp.form # "blank" /\ ~strptime_ok(inp)
       THEN UNCHANGED <<pc, typed, target_date, checked_on>>
       ELSE LET dt == IF inp.form = "blank" THEN now.date ELSE strptime(inp)
            IN  /\ typed' = (inp.form # "blank")
                /\ target_date' = dt
                /\ checked_on' = now.date
                /\ pc' = IF date_in_past(dt, now.date) THEN "date" ELSE "time"
    /\ UNCHANGED <<folder_path, repo_path, hour, minute, target_datetime,
                   warned, now, ticks, plist, loaded, launches>>
    /\ UNCHANGED <<fsVars, findVars, commitVars>>

\* One pass of the time loop: the user types inp
TimePrompt(inp) ==
    /\ pc = "time"
    /\ IF ~split_ok(inp)
       THEN UNCHANGED <<pc, hour, minute>>
       ELSE /\ hour' = inp.h
            /\ minute' = inp.m
            /\ pc' = IF time_out_of_range(inp.h, inp.m) THEN "time" ELSE "combine"
    /\ UNCHANGED <<folder_path, repo_path, typed, target_date, checked_on,
                   target_datetime, warned, now, ticks, plist, loaded, launches>>
    /\ UNCHANGED <<fsVars, findVars, commitVars>>

\* Lines 141-148: combine, advance a past timestamp by one day, return.  The
\* ValueError of replace(day=...) is caught nowhere and ends the process.
Combine ==
    /\ pc = "combine"
    /\ LET t == combine(target_date, hour, minute)
       IN  IF InstLT(t, now)
           THEN /\ warned' = TRUE
                /\ IF replace_day_ok(t, t.date.d + 1)
                   THEN /\ target_datetime' = replace_day(t, t.date.d + 1)
                        /\ pc' = "plist"
                   ELSE /\ target_datetime' = t
                        /\ pc' = "crashed"
           ELSE /\ target_datetime' = t
                /\ pc' = "plist"
                /\ UNCHANGED warned
    /\ UNCHANGED <<folder_path, repo_path, typed, target_date, checked_on, hour, minute,
                   now, ticks, plist, loaded, launches>>
    /\ UNCHANGED <<fsVars, findVars, commitVars>>

\* main(), lines 209-234, and create_launchd_plist: the job definition
\* written to ~/Library/LaunchAgents (the label is the folder's name and
\* strftime('%Y%m%d%H%M') of the target).  The Executor script and the logs
\* directory that are created on the way are files no property reads.
CreateLaunchdPlist ==
    /\ pc = "plist"
    /\ plist' =
         [Label |-> <<basename(folder_path), target_datetime.date.y,
                      target_datetime.date.m, target_datetime.date.d,
                      target_datetime.h, target_datetime.mi>>,
          ProgramArguments |-> <<"python3", "git_commit_executor.py",
                                 folder_path, repo_path>>,
          StartCalendarInterval |->
              [Month |-> target_datetime.date.m,
               Day |-> target_datetime.date.d,
               Hour |-> target_datetime.h,
               Minute |-> target_datetime.mi],
          RunAtLoad |-> FALSE]
    /\ pc' = "load"
    /\ UNCHANGED <<folder_path, repo_path, typed, target_date, checked_on, hour, minute,
                   target_datetime, warned, now, ticks, loaded, launches>>
    /\ UNCHANGED <<fsVars, findVars, commitVars>>

\* main(), lines 236-261: launchctl load, which succeeds or does not
LaunchctlLoad(returncode) ==
    /\ pc = "load"
    /\ IF returncode # 0
       THEN pc' = "load_failed" /\ UNCHANGED loaded
       ELSE pc' = "installed" /\ loaded' = TRUE
    /\ UNCHANGED <<folder_path, repo_path, typed, target_date, checked_on, hour, minute,
                   target_datetime, warned, now, ticks, plist, launches>>
    /\ UNCHANGED <<fsVars, findVars, commitVars>>

\* Lines 263-268: Ctrl-C at a prompt ends Setup
Interrupt ==
    /\ pc \in {"folder", "date", "time"}
    /\ pc' = "cancelled"
    /\ UNCHANGED <<folder_path, repo_path, typed, target_date, checked_on, hour, minute,
                   target_datetime, warned, now, ticks, plist, loaded, launches>>
    /\ UNCHANGED <<fsVars, findVars, commitVars>>

\* Time passes while Setup waits at a prompt: to later in the same minute,
\* or to the start of the next one
Tick ==
    /\ pc \in {"folder", "date", "time", "combine"}
    /\ ticks < MaxTicks
    /\ ticks' = ticks + 1
    /\ now' \in {[now EXCEPT !.sub = 1], NextMinute(now)} \ {now}
    /\ UNCHANGED <<pc, folder_path, repo_path, typed, target_date, checked_on, hour,
                   minute, target_datetime, warned, plist, loaded, launches>>
    /\ UNCHANGED <<fsVars, findVars, commitVars>>

\* The OS scheduler.  A StartCalendarInterval dictionary has no year: it
\* matches every instant whose month, day, hour and minute are the ones
\* written (keys left out match anything).
FireYears == 2024..2026

CalendarMatches(sci, t) ==
    /\ t.date.m = sci.Month
    /\ t.date.d = sci.Day
    /\ t.h = sci.Hour
    /\ t.mi = sci.Minute

\* The loaded job's trigger matches instant t, the clock reaches t (the
\* earliest matching instant not yet served), and the scheduler starts the
\* Executor.  Nothing in the program unloads the job.
LaunchdFire ==
    /\ pc = "installed"
    /\ loaded
    /\ \E y \in FireYears :
         LET sci == plist.StartCalendarInterval
             t == Instant(Date(y, sci.Month, sci.Day), sci.Hour, sci.Minute, 0)
         IN  /\ ValidDate(y, sci.Month, sci.Day)
             /\ CalendarMatches(sci, t)
             /\ ~InstLT(t, now)
             /\ \A i \in 1..Len(launches) : launches[i] # t
             /\ \A z \in FireYears : z < y =>
                    \/ ~ValidDate(z, sci.Month, sci.Day)
                    \/ InstLT(Instant(Date(z, sci.Month, sci.Day), sci.Hour, sci.Minute, 0), now)
                    \/ \E i \in 1..Len(launches) :
                          launches[i] = Instant(Date(z, sci.Month, sci.Day), sci.Hour, sci.Minute, 0)
             /\ now' = t
             /\ launches' = Append(launches, t)
    /\ UNCHANGED <<pc, folder_path, repo_path, typed, target_date, checked_on, hour,
                   minute, target_datetime, warned, ticks, plist, loaded>>
    /\ UNCHANGED <<fsVars, findVars, commitVars>>

-----------------------------------------------------------------------------
(* The repository the Executor works on.  It tracks one file below the     *)
(* folder "sub" and one below its sibling "sib".  The Executor's arguments *)
(* are named by what they point at.                                        *)

Files == {"sub/x", "sib/y"}

\* folder_path: the repository root, the folder sub, or a directory that is
\* in no repository
FolderArgs == {"root", "sub", "outside"}

\* repo_path: the repository root, a directory that is no repository, or a
\* path that does not exist
RepoArgs == {"repo", "notrepo", "missing"}

ArgLists ==
    {<<>>}
        \cup {<<f>> : f \in FolderArgs}
        \cup {<<f, r>> : f \in FolderArgs, r \in RepoArgs}
        \cup {<<f, r, "extra">> : f \in {"sub"}, r \in {"repo"}}

\* the tracked files below the folder
InFolder(folder) ==
    IF folder = "root" THEN Files
    ELSE IF folder = "sub" THEN {"sub/x"}
    ELSE {}

\* os.path.basename(os.path.abspath(folder_path))
folder_name_of(folder) ==
    IF folder = "root" THEN "repo" ELSE IF folder = "sub" THEN "sub" ELSE "other"

\* where the repo_path argument points in the tree (a missing path points nowhere)
repo_dir_of(repo) == IF repo = "repo" THEN <<"a", "a">> ELSE <<"a">>

\* os.path.relpath(folder_path, repo_path) + "/"
relative_path_of(folder) ==
    IF folder = "root" THEN "./" ELSE IF folder = "sub" THEN "sub/" ELSE "../other/"

\* The outcome of running an external command: it exits with a status, or
\* subprocess.run itself raises (the program cannot be started)
Exit(n) == [kind |-> "exit", code |-> n]
OsError == [kind |-> "oserror", code |-> 0]
NotRun == [kind |-> "notrun", code |-> 0]

\* what may go wrong with any git command for reasons outside the program
Faults == {Exit(128), OsError}

\* what git does when nothing outside goes wrong
status_of(repo) == IF repo = "repo" THEN Exit(0) ELSE Exit(128)
add_of(folder) == IF folder \in {"root", "sub"} THEN Exit(0) ELSE Exit(128)
diff_of(index) == IF index = {} THEN Exit(0) ELSE Exit(1)
commit_of(index) == IF index = {} THEN Exit(1) ELSE Exit(0)

GitCommands == <<"status", "add", "diff", "commit">>

NoStart == [pending |-> {}, index |-> {}, ncommits |-> 0]

NoCalls == [c \in {"status", "add", "diff", "commit"} |-> NotRun]

CommitIdle ==
    /\ ex_pc = "idle"
    /\ argv = <<>>
    /\ calls = <<>>
    /\ rc = NoCalls
    /\ ret = "none"
    /\ raised = "none"
    /\ exit_status = -1
    /\ out = <<>>
    /\ runs = 0
    /\ start = NoStart
    /\ env_fault = FALSE
    /\ commits = <<>>

-----------------------------------------------------------------------------
(* git_commit_executor.py and commit_folder *)

\* the check of git add left out: control always goes on to git diff
after_add_mut(returncode) == "diff"

\* `if result.returncode != 0` after git add (line 31): where control goes
after_add(returncode) == IF returncode # 0 THEN "return_false" ELSE "diff"

\* `if result.returncode == 0` after git diff --cached --quiet (line 40)
after_diff(returncode) == IF returncode = 0 THEN "return_true" ELSE "commit"

\* `if result.returncode != 0` after git commit (line 51)
after_commit(returncode) == IF returncode # 0 THEN "return_false" ELSE "return_true"

\* commit_folder returns value after printing msg; the Executor then ends
\* and the process exits with status 0
Return(value, msg) ==
    /\ ret' = value
    /\ out' = Append(out, msg)
    /\ exit_status' = 0
    /\ ex_pc' = "exited"

\* subprocess.run raised inside the try block: `except Exception` (line 61)
Caught == Return("False", "Error:")

\* The scheduler (or a user) starts the Executor, a new process, with the
\* arguments args; lines 12-17 of git_commit_executor.py
ExecStart(args) ==
    /\ ex_pc \in {"idle", "exited"}
    /\ runs < MaxRuns
    /\ runs' = runs + 1
    /\ cwd' = Home
    /\ argv' = <<"git_commit_executor.py">> \o args
    /\ calls' = <<>>
    /\ rc' = NoCalls
    /\ ret' = "none"
    /\ raised' = "none"
    /\ env_fault' = FALSE
    /\ IF Len(args) + 1 # 3
       THEN /\ out' = <<"Usage:">>
            /\ exit_status' = 1
            /\ ex_pc' = "exited"
            /\ start' = NoStart
       ELSE /\ out' = <<>>
            /\ exit_status' = -1
            /\ ex_pc' = "chdir"
            /\ start' = [pending |-> (wt_dirty \cup staged) \cap InFolder(args[1]),
                         index |-> staged,
                         ncommits |-> Len(commits)]
    /\ UNCHANGED <<wt_dirty, staged, commits>>
    /\ UNCHANGED <<fs_git, findVars, setupVars>>

\* Lines 15-19, before the try block: os.chdir(repo_path) raises when the
\* path is no directory, and the exception leaves commit_folder and ends
\* the Executor with a traceback and status 1
Chdir ==
    /\ ex_pc = "chdir"
    /\ IF argv[3] = "missing"
       THEN /\ raised' = "FileNotFoundError"
            /\ out' = Append(out, "Traceback")
            /\ exit_status' = 1
            /\ ex_pc' = "exited"
            /\ UNCHANGED cwd
       ELSE /\ ex_pc' = "status"
            /\ cwd' = repo_dir_of(argv[3])
            /\ UNCHANGED <<raised, out, exit_status>>
    /\ UNCHANGED <<argv, wt_dirty, staged, commits, calls, rc, ret, runs, start, env_fault>>
    /\ UNCHANGED <<fs_git, findVars, setupVars>>

\* Line 23: git status with check=True
GitStatus(res) ==
    /\ ex_pc = "status"
    /\ res \in {status_of(argv[3])} \cup Faults
    /\ calls' = Append(calls, "status")
    /\ rc' = [rc EXCEPT !["status"] = res]
    /\ env_fault' = (env_fault \/ res # status_of(argv[3]))
    /\ IF res.kind = "oserror" THEN Caught
       ELSE IF res.code # 0 THEN Return("False", "Git error:")
       ELSE /\ ex_pc' = "add"
            /\ UNCHANGED <<ret, out, exit_status>>
    /\ UNCHANGED <<argv, wt_dirty, staged, commits, raised, runs, start>>
    /\ UNCHANGED <<fsVars, findVars, setupVars>>

\* Lines 26-33: git add relative_path/, which moves the folder's work tree
\* changes into the index
GitAdd(res) ==
    /\ ex_pc = "add"
    /\ res \in {add_of(argv[2])} \cup Faults
    /\ calls' = Append(calls, "add")
    /\ rc' = [rc EXCEPT !["add"] = res]
    /\ env_fault' = (env_fault \/ res # add_of(argv[2]))
    /\ IF res = Exit(0)
       THEN /\ staged' = staged \cup (wt_dirty \cap InFolder(argv[2]))
            /\ wt_dirty' = wt_dirty \ InFolder(argv[2])
       ELSE UNCHANGED <<staged, wt_dirty>>
    /\ IF res.kind = "oserror" THEN Caught
       ELSE IF after_add(res.code) = "return_false"
       THEN Return("False", "Error adding files:")
       ELSE /\ ex_pc' = "diff"
            /\ UNCHANGED <<ret, out, exit_status>>
    /\ UNCHANGED <<argv, commits, raised, runs, start>>
    /\ UNCHANGED <<fsVars, findVars, setupVars>>

\* Lines 36-42: git diff --cached --quiet compares the whole index to HEAD
GitDiff(res) ==
    /\ ex_pc = "diff"
    /\ res \in {diff_of(staged)} \cup Faults
    /\ calls' = Append(calls, "diff")
    /\ rc' = [rc EXCEPT !["diff"] = res]
    /\ env_fault' = (env_fault \/ res # diff_of(staged))
    /\ IF res.kind = "oserror" THEN Caught
       ELSE IF after_diff(res.code) = "return_true"
       THEN Return("True", "No changes to commit.")
       ELSE /\ ex_pc' = "commit"
            /\ UNCHANGED <<ret, out, exit_status>>
    /\ UNCHANGED <<argv, wt_dirty, staged, commits, raised, runs, start>>
    /\ UNCHANGED <<fsVars, findVars, setupVars>>

\* Lines 45-56: git commit -m commit_message records the whole index
GitCommit(res) ==
    /\ ex_pc = "commit"
    /\ res \in {commit_of(staged)} \cup Faults
    /\ calls' = Append(calls, "commit")
    /\ rc' = [rc EXCEPT !["commit"] = res]
    /\ env_fault' = (env_fault \/ res # commit_of(staged))
    /\ IF res = Exit(0)
       THEN /\ commits' = Append(commits,
                              [paths |-> staged,
                               message |-> <<"Auto-commit", folder_name_of(argv[2]),
                                             "-", now>>])
            /\ staged' = {}
       ELSE UNCHANGED <<commits, staged>>
    /\ IF res.kind = "oserror" THEN Caught
       ELSE IF after_commit(res.code) = "return_false"
       THEN Return("False", "Error committing:")
       ELSE Return("True", "Successfully committed")
    /\ UNCHANGED <<argv, wt_dirty, raised, runs, start>>
    /\ UNCHANGED <<fsVars, findVars, setupVars>>

\* Between two runs of the Executor somebody edits a tracked file
UserEdit(f) ==
    /\ ex_pc = "exited"
    /\ runs < MaxRuns
    /\ f \notin wt_dirty
    /\ wt_dirty' = wt_dirty \cup {f}
    /\ UNCHANGED <<ex_pc, argv, staged, commits, calls, rc, ret, raised, exit_status,
                   out, runs, start, env_fault>>
    /\ UNCHANGED <<fsVars, findVars, setupVars>>

-----------------------------------------------------------------------------
(* The specifications *)

CommitClock == Instant(Date(2024, 12, 28), 10, 0, 1)

FindInit ==
    /\ FsInit
    /\ FindIdle
    /\ SetupIdle
    /\ now = NoInstant
    /\ CommitIdle
    /\ wt_dirty = {}
    /\ staged = {}

FindStep ==
    \/ \E path \in PathInputs : FindCall(path)
    \/ FindNext

FindSpec == FindInit /\ [][FindStep]_vars

SetupInit ==
    /\ fs_git \in {g \in SUBSET Dirs : Cardinality(g) <= MaxRepos}
    /\ cwd = Home
    /\ FindIdle
    /\ folder_path = NoPath
    /\ repo_path = NoPath
    /\ typed = FALSE
    /\ target_date = NoDate
    /\ checked_on = NoDate
    /\ hour = Unset
    /\ minute = Unset
    /\ target_datetime = NoInstant
    /\ warned = FALSE
    /\ ticks = 0
    /\ plist = NoPlist
    /\ loaded = FALSE
    /\ launches = <<>>
    /\ pc = "folder"
    /\ now \in ClockInstants
    /\ CommitIdle
    /\ wt_dirty = {}
    /\ staged = {}

SetupStep ==
    \/ \E inp \in FolderInputs : FolderPrompt(inp)
    \/ \E inp \in DateInputs : DatePrompt(inp)
    \/ \E inp \in TimeInputs : TimePrompt(inp)
    \/ Combine
    \/ CreateLaunchdPlist
    \/ \E returncode \in {0, 1} : LaunchctlLoad(returncode)
    \/ Interrupt
    \/ Tick
    \/ LaunchdFire

SetupSpec == SetupInit /\ [][SetupStep]_vars

CommitInit ==
    /\ fs_git = {}
    /\ cwd = Home
    /\ FindIdle
    /\ SetupIdle
    /\ now = CommitClock
    /\ CommitIdle
    /\ wt_dirty \in SUBSET Files
    /\ staged \in SUBSET Files

CommitStep ==
    \/ \E args \in ArgLists : ExecStart(args)
    \/ Chdir
    \/ \E res \in {Exit(0), Exit(1), Exit(128), OsError} : GitStatus(res)
    \/ \E res \in {Exit(0), Exit(1), Exit(128), OsError} : GitAdd(res)
    \/ \E res \in {Exit(0), Exit(1), Exit(128), OsError} : GitDiff(res)
    \/ \E res \in {Exit(0), Exit(1), Exit(128), OsError} : GitCommit(res)
    \/ \E f \in Files : UserEdit(f)

CommitSpec == CommitInit /\ [][CommitStep]_vars

-----------------------------------------------------------------------------
(* Properties *)

Registration == {"plist", "load", "load_failed", "installed"}
PastFolderLoop == {"date", "time", "combine", "crashed"} \cup Registration
PastDateLoop == {"time", "combine", "crashed"} \cup Registration

Ancestors(p) == {SubSeq(p, 1, k) : k \in 0..Len(p)}

Range(seq) == {seq[i] : i \in 1..Len(seq)}

Running == {"chdir", "status", "add", "diff", "commit"}

\* how many git commands have been run when commit_folder is at a position
Rank(position) ==
    IF position \in {"chdir", "status"} THEN 0
    ELSE IF position = "add" THEN 1
    ELSE IF position = "diff" THEN 2
    ELSE 3

\* a step of commit_folder
CommitFolderStep ==
    \/ Chdir
    \/ \E res \in {Exit(0), Exit(1), Exit(128), OsError} :
          GitStatus(res) \/ GitAdd(res) \/ GitDiff(res) \/ GitCommit(res)

\* the Executor was given two arguments and has ended
Finished == ex_pc = "exited" /\ Len(argv) = 3

\* C1: commit_folder never raises an exception to its caller; every failure,
\* the change of directory included, is reported and returns False.
C1_NeverRaises ==
    Finished => raised = "none" /\ ret \in {"True", "False"}

\* C2: with no pending change in the target folder (paths outside it may be
\* staged), an invocation in a healthy repository reports "no changes",
\* returns success and creates no commit.
C2_NoChangesNoCommit ==
    (/\ Finished
     /\ argv[3] = "repo"
     /\ argv[2] \in {"root", "sub"}
     /\ ~env_fault
     /\ start.pending = {})
        => /\ ret = "True"
           /\ out = <<"No changes to commit.">>
           /\ Len(commits) = start.ncommits

\* C3: with pending changes in the target folder, an invocation in a healthy
\* repository creates exactly one commit, whose message holds the folder's
\* base name and a timestamp and whose changes are the folder's pending
\* changes, none of them to a path outside the folder, whatever the index
\* held before.
C3_CommitsOnlyFolder ==
    (/\ Finished
     /\ argv[3] = "repo"
     /\ argv[2] \in {"root", "sub"}
     /\ ~env_fault
     /\ start.pending # {})
        => /\ ret = "True"
           /\ Len(commits) = start.ncommits + 1
           /\ commits[Len(commits)].paths = start.pending
           /\ commits[Len(commits)].paths \subseteq InFolder(argv[2])
           /\ commits[Len(commits)].message[2] = folder_name_of(argv[2])
           /\ commits[Len(commits)].message[4] = now

\* C7: the Executor exits with status 1 and the usage message exactly when
\* its argument count is wrong; with two arguments it exits with status 0
\* whatever the commit sequence did.
C7_ExitStatus ==
    ex_pc = "exited" =>
        /\ (exit_status = 1) <=> (Len(argv) # 3)
        /\ Len(argv) = 3 => exit_status = 0
        /\ Len(argv) # 3 => out = <<"Usage:">>

\* The part of C10 that does not speak of git diff: one invocation runs the
\* git commands at most once each, in the order status, add, diff, commit,
\* its position fixing how many have run (no retry, and a next step is
\* always possible until it returns); commit runs only after status and add
\* exited with 0; and after a failed status or add it has returned False
\* with no commit created.
SingleAttempt ==
    /\ Len(calls) <= Len(GitCommands)
    /\ calls = SubSeq(GitCommands, 1, Len(calls))
    /\ \A c \in Range(GitCommands) : (rc[c] # NotRun) <=> (c \in Range(calls))
    /\ ex_pc \in Running => Len(calls) = Rank(ex_pc) /\ ENABLED CommitFolderStep
    /\ rc["commit"] # NotRun => rc["status"] = Exit(0) /\ rc["add"] = Exit(0)
    /\ (rc["status"] \notin {NotRun, Exit(0)} \/ rc["add"] \notin {NotRun, Exit(0)}) =>
          /\ ex_pc = "exited"
          /\ ret = "False"
          /\ Len(calls) <= 2
          /\ Len(commits) = start.ncommits

C4_NearestAncestor ==
    find_pc = "returned" =>
        LET holders == {r \in Ancestors(abspath(find_arg, cwd)) : HasGit(r)}
        IN  IF holders = {} THEN find_result = NoPath
            ELSE /\ find_result \in holders
                 /\ \A r \in holders : Len(r) <= Len(find_result)

\* C8: Setup leaves the folder loop only with a folder that is an existing
\* directory and a repo_path that is find_git_repo(folder_path), holds
\* ".git" and is an ancestor (inclusive) of the folder; these are the paths
\* written to the job definition.
C8_ValidatedFolder ==
    /\ pc \in PastFolderLoop =>
          /\ Exists(folder_path)
          /\ IsDir(folder_path)
          /\ repo_path \in Ancestors(folder_path)
          /\ HasGit(repo_path)
          /\ repo_path = find_git_repo(Abs(folder_path), cwd)
    /\ pc \in {"load", "load_failed", "installed"} =>
          /\ plist.ProgramArguments[3] = folder_path
          /\ plist.ProgramArguments[4] = repo_path

\* C8's case: a folder nested below its repository reached registration
C8_Witness ==
    /\ pc = "installed"
    /\ Len(folder_path) = 2
    /\ repo_path = <<"a">>

C6_AdvancedOneDay ==
    (pc \in PastDateLoop \ {"time", "combine"} /\ warned) =>
        /\ pc \in Registration
        /\ target_datetime = combine(NextDay(target_date), hour, minute)

\* C9: the registered job is one-shot: the scheduler starts the Executor at
\* the target instant and at no other, so at most once.
C9_OneShot ==
    /\ Len(launches) <= 1
    /\ \A i \in 1..Len(launches) : launches[i] = target_datetime

=============================================================================
